---- MODULE Spec2Model ----
(***************************************************************************)
(* The RFB client handshake and framing engine of                          *)
(* xpra/client/rfb_protocol.py (class RFBClientProtocol).                  *)
(*                                                                         *)
(* A packet is a sequence of bytes (0..255).  Each parser of the class is  *)
(* an operator from (current parser, packet) to an outcome record:         *)
(*   ret     what the call returns: an int, None, or a raised struct.error *)
(*   send    the messages handed to self.send, in order                    *)
(*   abort   the calls made to self._internal_error / self.invalid         *)
(*   parser  self._packet_parser after the call                            *)
(*   names   the session names the call decoded                            *)
(* The session is the parser, the receive buffer that is re-presented to   *)
(* the parser until bytes are consumed, and the bytes still in flight.     *)
(*                                                                         *)
(* A second specification, XvfbSpec, follows start_Xvfb of                 *)
(* xpra/x11/vfb_util.py statement by statement.                            *)
(***************************************************************************)
EXTENDS Integers, Sequences, FiniteSets

VARIABLES packet_parser, buffer, wire, sent, aborts, session_names, last, waited,
          protocol_handshakes

\* the RFB session
rfb_vars ==
    <<packet_parser, buffer, wire, sent, aborts, session_names, last, waited,
      protocol_handshakes>>

\* start_Xvfb of xpra/x11/vfb_util.py: where the call is, its arguments, its
\* locals (the two pipe descriptors, xvfb, buf, display_name, the exception being
\* raised), the vfb process, the Xorg log file and what the call returned
VARIABLES v_pc, v_args, r_pipe, w_pipe, xvfb, buf, display_name, exc, proc, logfile,
          v_result

vfb_vars ==
    <<v_pc, v_args, r_pipe, w_pipe, xvfb, buf, display_name, exc, proc, logfile,
      v_result>>

vars == <<rfb_vars, vfb_vars>>

(* ---------------------------------------------------------------- bounds *)

\* largest number of security types a generated list announces
MaxTypes == 2
\* largest session name length a generated server-init announces
MaxName == 2
\* largest rectangle width / height of a generated update
MaxDim == 2
\* bytes of its next message (zero bytes: the start of an authentication status
\* or of an update) that the server may write along with a message, and buffered
\* bytes up to which it may write another message
MaxExtra == 1
\* abort calls after which the session is torn down (no further calls)
MaxAborts == 2
\* largest decimal digit the vfb writes to the display pipe
MaxDigit == 1
\* most bytes read from the display pipe
MaxBuf == 3

(* ------------------------------------------------------- byte sequences *)

Take(s, k) == SubSeq(s, 1, IF k < Len(s) THEN k ELSE Len(s))

Drop(s, k) == SubSeq(s, (IF k < Len(s) THEN k ELSE Len(s)) + 1, Len(s))

\* packet[a:b] of Python, 0-based, clipped to the packet
Slice(s, a, b) == Drop(Take(s, b), a)

RECURSIVE Zeros(_)
Zeros(k) == IF k <= 0 THEN << >> ELSE <<0>> \o Zeros(k - 1)

(* --------------------------------------------------------------- struct *)

\* the size of one struct format character
fmt_size(c) ==
    CASE c = "B" -> 1
      [] c = "x" -> 1
      [] c = "H" -> 2
      [] c = "i" -> 4
      [] c = "I" -> 4

RECURSIVE calcsize(_)
\* struct.calcsize of a format without alignment, given as its characters
calcsize(fmt) == IF fmt = << >> THEN 0 ELSE fmt_size(Head(fmt)) + calcsize(Tail(fmt))

\* big-endian 16-bit unsigned at 0-based offset o
unpack_H(s, o) == s[o + 1] * 256 + s[o + 2]

\* big-endian 32-bit signed at 0-based offset o
unpack_i(s, o) ==
    LET hi == unpack_H(s, o)
        lo == unpack_H(s, o + 2)
    IN  IF hi >= 32768 THEN (hi - 65536) * 65536 + lo ELSE hi * 65536 + lo

\* "!...I": 32-bit unsigned in network order at 0-based offset o, kept as its
\* two 16-bit halves (the value is hi * 65536 + lo)
unpack_I(s, o) == [hi |-> unpack_H(s, o), lo |-> unpack_H(s, o + 2)]

\* "I" without a byte-order mark: 32-bit unsigned in native order, which is
\* little-endian on the hosts the client is built for: the first byte is the
\* lowest (the value is hi * 65536 + lo)
unpack_I_native(s, o) ==
    [hi |-> s[o + 4] * 256 + s[o + 3], lo |-> s[o + 2] * 256 + s[o + 1]]

\* k < v, for k >= 0 and an unsigned 32-bit v kept as halves: exact, without
\* forming a value beyond the integers computed with here
less_than_I(k, v) ==
    \/ k \div 65536 < v.hi
    \/ k \div 65536 = v.hi /\ k % 65536 < v.lo

\* k < w * h * b, for k >= 0 and w, h >= 0, b > 0: exact, by division
less_than_product(k, w, h, b) == w # 0 /\ h * b > k \div w

pack_B(v) == <<v % 256>>

pack_H(v) == <<(v \div 256) % 256, v % 256>>

\* big-endian 32-bit signed
pack_i(v) ==
    LET hi == (IF v < 0 THEN 65536 ELSE 0) + (v \div 65536)
        lo == v % 65536
    IN  pack_H(hi) \o pack_H(lo)

(* ------------------------------------------------------------ constants *)

\* RFBAuth.NONE of xpra.net.rfb.rfb_const: the "no authentication" security
\* type, 1 in the RFB protocol (0 is the invalid type)
RFBAuth_NONE == 1

\* RFBEncoding.RAW of xpra.net.rfb.rfb_const
RFBEncoding_RAW == 0

\* RFBClientMessage.SetEncodings of xpra.net.rfb.rfb_const
RFBClientMessage_SetEncodings == 2

\* PIXEL_FORMAT of xpra.net.rfb.rfb_const: "BBBBHHHBBBxxx"
PIXEL_FORMAT == <<"B", "B", "B", "B", "H", "H", "H", "B", "B", "B", "x", "x", "x">>

\* CLIENT_INIT of xpra.net.rfb.rfb_const: "!HH" + PIXEL_FORMAT + "I"
CLIENT_INIT == <<"H", "H">> \o PIXEL_FORMAT \o <<"I">>

(* --------------------------------------------------------------- parsers *)

ParseStates ==
    <<"_parse_security_handshake", "_parse_security_result",
      "_parse_client_init", "_parse_rfb_packet">>

\* what a call returns
Ret(v) == [kind |-> "int", val |-> v]
None == [kind |-> "None", val |-> 0]
StructError == [kind |-> "struct.error", val |-> 0]

\* an outcome that touches nothing
Quiet(self, ret) ==
    [ret |-> ret, send |-> << >>, abort |-> << >>, parser |-> self, names |-> << >>]

\* self._internal_error(packet, reason): the abort collaborator is signalled once
_internal_error(self, reason) ==
    [ret |-> Ret(0), send |-> << >>,
     abort |-> <<[via |-> "_internal_error", reason |-> reason]>>,
     parser |-> self, names |-> << >>]

\* self.invalid(reason, packet): the abort collaborator is signalled once
invalid(self, reason, ret) ==
    [ret |-> ret, send |-> << >>,
     abort |-> <<[via |-> "invalid", reason |-> reason]>>,
     parser |-> self, names |-> << >>]

\* bytestostr: each byte becomes the character with that code point (latin1)
bytestostr(s) == [i \in 1..Len(s) |-> [chr |-> s[i]]]

\* variant: any advertised no-auth type is accepted, not only the first
_parse_security_handshake_any_none(self, packet) ==
    IF Len(Slice(packet, 0, 1)) # 1
    THEN Quiet(self, StructError)
    ELSE LET n == packet[1] IN
         IF n = 0
         THEN _internal_error(self, "cannot parse security handshake")
         ELSE IF Len(Drop(packet, 1)) # n
         THEN Quiet(self, StructError)
         ELSE LET st == Drop(packet, 1) IN
              IF \A i \in 1..Len(st) : st[i] # RFBAuth_NONE
              THEN _internal_error(self, "security type not supported yet")
              ELSE [ret |-> Ret(1 + n), send |-> <<pack_B(0)>>, abort |-> << >>,
                    parser |-> "_parse_security_result", names |-> << >>]

\* variant: the empty list is not refused before the types are unpacked
_parse_security_handshake_no_zero_check(self, packet) ==
    IF Len(Slice(packet, 0, 1)) # 1
    THEN Quiet(self, StructError)
    ELSE LET n == packet[1] IN
         IF Len(Drop(packet, 1)) # n
         THEN Quiet(self, StructError)
         ELSE LET st == Drop(packet, 1) IN
              IF st # << >> /\ st[1] # RFBAuth_NONE
              THEN _internal_error(self, "security type not supported yet")
              ELSE [ret |-> Ret(1 + n), send |-> <<pack_B(0)>>, abort |-> << >>,
                    parser |-> "_parse_security_result", names |-> << >>]

\* variant: a list holding a type outside the known ones is refused
_parse_security_handshake_known_only(self, packet) ==
    IF Len(Slice(packet, 0, 1)) # 1
    THEN Quiet(self, StructError)
    ELSE LET n == packet[1] IN
         IF n = 0
         THEN _internal_error(self, "cannot parse security handshake")
         ELSE IF Len(Drop(packet, 1)) # n
         THEN Quiet(self, StructError)
         ELSE LET st == Drop(packet, 1) IN
              IF st[1] # RFBAuth_NONE \/ \E i \in 1..Len(st) : st[i] > 30
              THEN _internal_error(self, "security type not supported yet")
              ELSE [ret |-> Ret(1 + n), send |-> <<pack_B(0)>>, abort |-> << >>,
                    parser |-> "_parse_security_result", names |-> << >>]

_parse_security_handshake(self, packet) ==
    IF Len(Slice(packet, 0, 1)) # 1
    THEN Quiet(self, StructError)
    ELSE LET n == packet[1] IN
         IF n = 0
         THEN _internal_error(self, "cannot parse security handshake")
         ELSE IF Len(Drop(packet, 1)) # n
         THEN Quiet(self, StructError)
         ELSE LET st == Drop(packet, 1) IN
              IF st # << >> /\ st[1] # RFBAuth_NONE
              THEN _internal_error(self, "security type not supported yet")
              ELSE [ret |-> Ret(1 + n), send |-> <<pack_B(0)>>, abort |-> << >>,
                    parser |-> "_parse_security_result", names |-> << >>]

\* variant: the whole packet is unpacked as the status, not its first 4 bytes
_parse_security_result_whole_packet(self, packet) ==
    IF Len(packet) < 4
    THEN Quiet(self, Ret(0))
    ELSE IF Len(packet) # 4
    THEN Quiet(self, StructError)
    ELSE LET r == unpack_I_native(packet, 0) IN
         IF r.hi # 0 \/ r.lo # 0
         THEN _internal_error(self, "authentication denied")
         ELSE [ret |-> Ret(4), send |-> <<pack_B(0)>>, abort |-> << >>,
               parser |-> "_parse_client_init", names |-> << >>]

\* variant: only 16 bits of the status are tested
_parse_security_result_low16(self, packet) ==
    IF Len(packet) < 4
    THEN Quiet(self, Ret(0))
    ELSE LET r == unpack_I_native(Slice(packet, 0, 4), 0) IN
         IF r.lo # 0
         THEN _internal_error(self, "authentication denied")
         ELSE [ret |-> Ret(4), send |-> <<pack_B(0)>>, abort |-> << >>,
               parser |-> "_parse_client_init", names |-> << >>]

\* variant: a zero status installs the update parser, skipping the client init
_parse_security_result_skips_init(self, packet) ==
    IF Len(packet) < 4
    THEN Quiet(self, Ret(0))
    ELSE LET r == unpack_I_native(Slice(packet, 0, 4), 0) IN
         IF r.hi # 0 \/ r.lo # 0
         THEN _internal_error(self, "authentication denied")
         ELSE [ret |-> Ret(4), send |-> <<pack_B(0)>>, abort |-> << >>,
               parser |-> "_parse_rfb_packet", names |-> << >>]

\* variant: a zero status installs the client-init parser without the share flag
_parse_security_result_no_share_flag(self, packet) ==
    IF Len(packet) < 4
    THEN Quiet(self, Ret(0))
    ELSE LET r == unpack_I_native(Slice(packet, 0, 4), 0) IN
         IF r.hi # 0 \/ r.lo # 0
         THEN _internal_error(self, "authentication denied")
         ELSE [ret |-> Ret(4), send |-> << >>, abort |-> << >>,
               parser |-> "_parse_client_init", names |-> << >>]

\* variant: a refused authentication is reported, and the session goes on
_parse_security_result_goes_on(self, packet) ==
    IF Len(packet) < 4
    THEN Quiet(self, Ret(0))
    ELSE LET r == unpack_I_native(Slice(packet, 0, 4), 0) IN
         [ret |-> Ret(4), send |-> <<pack_B(0)>>,
          abort |-> IF r.hi # 0 \/ r.lo # 0
                    THEN _internal_error(self, "authentication denied").abort
                    ELSE << >>,
          parser |-> "_parse_client_init", names |-> << >>]

_parse_security_result(self, packet) ==
    IF Len(packet) < 4
    THEN Quiet(self, Ret(0))
    ELSE LET r == unpack_I_native(Slice(packet, 0, 4), 0) IN
         IF r.hi # 0 \/ r.lo # 0
         THEN _internal_error(self, "authentication denied")
         ELSE [ret |-> Ret(4), send |-> <<pack_B(0)>>, abort |-> << >>,
               parser |-> "_parse_client_init", names |-> << >>]

\* variant: the count and the encoding are packed in little-endian order
send_set_encodings_little_endian ==
    <<pack_B(RFBClientMessage_SetEncodings) \o pack_B(0) \o <<1, 0>>
        \o pack_i(RFBEncoding_RAW)>>

send_set_encodings ==
    <<pack_B(RFBClientMessage_SetEncodings) \o pack_B(0) \o pack_H(1)
        \o pack_i(RFBEncoding_RAW)>>

\* ci_size = struct.calcsize(CLIENT_INIT)
ci_size == calcsize(CLIENT_INIT)

\* variant: the name is not waited for once the fixed header is there
_parse_client_init_header_only(self, packet) ==
    IF Len(packet) < ci_size
    THEN Quiet(self, Ret(0))
    ELSE LET name_size == unpack_I(Slice(packet, 0, ci_size), ci_size - 4) IN
         LET n == name_size.hi * 65536 + name_size.lo IN
         [ret |-> Ret(ci_size + n), send |-> send_set_encodings,
          abort |-> << >>, parser |-> "_parse_rfb_packet",
          names |-> <<bytestostr(Slice(packet, ci_size, ci_size + n))>>]

_parse_client_init(self, packet) ==
    IF Len(packet) < ci_size
    THEN Quiet(self, Ret(0))
    ELSE LET name_size == unpack_I(Slice(packet, 0, ci_size), ci_size - 4) IN
         \* len(packet) < ci_size + name_size
         IF less_than_I(Len(packet) - ci_size, name_size)
         THEN Quiet(self, Ret(0))
         ELSE LET n == name_size.hi * 65536 + name_size.lo IN
              [ret |-> Ret(ci_size + n), send |-> send_set_encodings,
               abort |-> << >>, parser |-> "_parse_rfb_packet",
               names |-> <<bytestostr(Slice(packet, ci_size, ci_size + n))>>]

\* header_size = struct.calcsize(b"!BBHHHHHi")
header_size == calcsize(<<"B", "B", "H", "H", "H", "H", "H", "i">>)

\* variant: one byte per pixel instead of four
_parse_rfb_packet_byte_pixels(self, packet) ==
    IF Len(packet) <= header_size
    THEN Quiet(self, Ret(0))
    ELSE IF Slice(packet, 0, 4) # pack_B(0) \o pack_B(0) \o pack_H(1)
    THEN invalid(self, "unknown packet", Ret(0))
    ELSE LET w == unpack_H(packet, 8)
             h == unpack_H(packet, 10)
             encoding == unpack_i(packet, 12)
         IN  IF encoding # RFBEncoding_RAW
             THEN invalid(self, "invalid encoding", None)
             ELSE IF less_than_product(Len(packet) - header_size, w, h, 1)
             THEN Quiet(self, Ret(0))
             ELSE Quiet(self, Ret(header_size + w * h))

\* variant: an update whose pixels are not all buffered is reported as invalid
_parse_rfb_packet_short_is_invalid(self, packet) ==
    IF Len(packet) <= header_size
    THEN Quiet(self, Ret(0))
    ELSE IF Slice(packet, 0, 4) # pack_B(0) \o pack_B(0) \o pack_H(1)
    THEN invalid(self, "unknown packet", Ret(0))
    ELSE LET w == unpack_H(packet, 8)
             h == unpack_H(packet, 10)
             encoding == unpack_i(packet, 12)
         IN  IF encoding # RFBEncoding_RAW
             THEN invalid(self, "invalid encoding", None)
             ELSE IF less_than_product(Len(packet) - header_size, w, h, 4)
             THEN invalid(self, "unknown packet", Ret(0))
             ELSE Quiet(self, Ret(header_size + w * h * 4))

_parse_rfb_packet(self, packet) ==
    IF Len(packet) <= header_size
    THEN Quiet(self, Ret(0))
    ELSE IF Slice(packet, 0, 4) # pack_B(0) \o pack_B(0) \o pack_H(1)
    THEN invalid(self, "unknown packet", Ret(0))
    ELSE LET w == unpack_H(packet, 8)
             h == unpack_H(packet, 10)
             encoding == unpack_i(packet, 12)
         IN  IF encoding # RFBEncoding_RAW
             THEN invalid(self, "invalid encoding", None)
             \* len(packet) < header_size + w*h*4: Python integers are unbounded,
             \* the product is never wrapped or capped
             ELSE IF less_than_product(Len(packet) - header_size, w, h, 4)
             THEN Quiet(self, Ret(0))
             ELSE Quiet(self, Ret(header_size + w * h * 4))

\* self._packet_parser(packet)
Dispatch(self, packet) ==
    CASE self = "_parse_security_handshake" -> _parse_security_handshake(self, packet)
      [] self = "_parse_security_result" -> _parse_security_result(self, packet)
      [] self = "_parse_client_init" -> _parse_client_init(self, packet)
      [] self = "_parse_rfb_packet" -> _parse_rfb_packet(self, packet)

(* ------------------------------------------------------ the server side *)

\* security type codes a generated list draws from: no-auth, VNC, an unknown one
AuthCodes == {RFBAuth_NONE, 2, 77}

RECURSIVE Lists(_, _)
\* the sequences of length k over the set S
Lists(S, k) ==
    IF k = 0 THEN {<< >>}
    ELSE {<<c>> \o l : c \in S, l \in Lists(S, k - 1)}

\* a security-type list: the count byte and that many codes
SecurityLists == UNION {{<<n>> \o l : l \in Lists(AuthCodes, n)} : n \in 0..MaxTypes}

\* a 32-bit authentication status: OK, failed, and one whose low bytes are zero
SecurityResults == {<<0, 0, 0, 0>>, <<0, 0, 0, 1>>, <<1, 0, 0, 0>>}

\* a server-init: 800x600, a 16-byte pixel format, the name length and the name
ClientInits ==
    UNION {{pack_H(800) \o pack_H(600) \o <<32, 24, 0, 1>> \o pack_H(255) \o pack_H(255)
              \o pack_H(255) \o <<16, 8, 0>> \o Zeros(3) \o pack_H(0) \o pack_H(k) \o name
            : name \in {[i \in 1..k |-> 64 + i]}} : k \in 0..MaxName}

\* a server-init that announces a name of 65536 bytes, and its first bytes
LongNameInit ==
    pack_H(800) \o pack_H(600) \o <<32, 24, 0, 1>> \o pack_H(255) \o pack_H(255)
        \o pack_H(255) \o <<16, 8, 0>> \o Zeros(3) \o pack_H(1) \o pack_H(0) \o <<65, 66>>

\* widths and heights: 0..MaxDim
Dims == 0..MaxDim

\* a framebuffer update: the marker, one rectangle header and its pixels
Rect(marker, w, h, encoding) ==
    marker \o pack_H(1) \o pack_H(3) \o pack_H(w) \o pack_H(h) \o pack_i(encoding)
        \o Zeros(w * h * 4)

\* the header of the largest raw rectangle, 65535 x 65535, and its first pixel
HugeRect ==
    <<0, 0, 0, 1>> \o pack_H(0) \o pack_H(0) \o pack_H(65535) \o pack_H(65535)
        \o pack_i(RFBEncoding_RAW) \o Zeros(4)

\* raw rectangles of every size, other encodings, a wrong marker, the largest
Updates ==
    {Rect(<<0, 0, 0, 1>>, w, h, RFBEncoding_RAW) : w \in Dims, h \in Dims}
      \cup {Rect(<<0, 0, 0, 1>>, 1, h, e) : h \in 0..1, e \in {1, -1}}
      \cup {Rect(<<0, 0, 0, 2>>, 1, 1, RFBEncoding_RAW)}
      \cup {HugeRect}

Messages ==
    SecurityLists \cup SecurityResults \cup ClientInits \cup {LongNameInit} \cup Updates

(* ------------------------------------------------------ the vfb launcher *)

Digits == <<"0", "1", "2", "3", "4", "5", "6", "7", "8", "9">>

\* what may be read from the display pipe: digits, the newline, another byte
PipeChars == {Digits[d + 1] : d \in 0..MaxDigit} \cup {"\n", "x"}

PipeOutputs == UNION {Lists(PipeChars, k) : k \in 0..MaxBuf}

IsDigit(c) == \E d \in 1..Len(Digits) : Digits[d] = c

\* int(b): the value of a string of decimal digits
RECURSIVE int(_)
int(b) ==
    IF b = << >> THEN 0
    ELSE int(SubSeq(b, 1, Len(b) - 1)) * 10
           + (CHOOSE d \in 0..9 : Digits[d + 1] = b[Len(b)])

\* "%s" % n
RECURSIVE str(_)
str(n) == IF n < 10 THEN <<Digits[n + 1]>> ELSE str(n \div 10) \o <<Digits[(n % 10) + 1]>>

\* parse_displayfd(buf, err) of xpra.platform.displayfd: the display number of a
\* newline-terminated decimal below 2**16, and err(msg) called for anything else
parse_displayfd(b) ==
    IF b = << >> \/ b[Len(b)] # "\n" THEN [err |-> TRUE, n |-> 0]
    ELSE LET body == SubSeq(b, 1, Len(b) - 1) IN
         IF body = << >> \/ \E i \in 1..Len(body) : ~IsDigit(body[i])
         THEN [err |-> TRUE, n |-> 0]
         ELSE IF int(body) >= 65536 THEN [err |-> TRUE, n |-> 0]
         ELSE [err |-> FALSE, n |-> int(body)]

\* no value returned
NoResult == [xvfb |-> "", display_name |-> << >>]

\* the locals of start_Xvfb before line 241, and no vfb process
FreshCall ==
    /\ r_pipe = "unset"
    /\ w_pipe = "unset"
    /\ xvfb = "unset"
    /\ buf = << >>
    /\ exc = ""
    /\ proc = "none"
    /\ logfile = "none"
    /\ v_result = NoResult

\* start_Xvfb is not being called
NoVfb ==
    /\ v_pc = "idle"
    /\ v_args = [display_name |-> << >>, tmp_xorg_log_file |-> FALSE]
    /\ display_name = << >>
    /\ FreshCall

\* the calls made: a display chosen by the vfb ("S" names) or given, with or
\* without an Xorg log file to rename
VfbCalls ==
    {[display_name |-> d, tmp_xorg_log_file |-> l]
       : d \in {<<"S", "1">>, <<":", "1">>}, l \in BOOLEAN}

(* ---------------------------------------------------------- the session *)

\* last is the call made since the last delivery: who was called, with what, after
\* an earlier wait or not, and the outcome; NoCall when bytes were delivered since
NoCall == [parser |-> "", packet |-> << >>, waited |-> FALSE, out |-> Quiet("", Ret(0))]

\* __init__: the protocol object as the base class leaves it, with the parser
\* of the protocol version exchange installed and nothing sent or received
Constructed ==
    /\ packet_parser = "_parse_protocol_handshake"
    /\ buffer = << >>
    /\ sent = << >>
    /\ aborts = << >>
    /\ session_names = << >>
    /\ last = NoCall
    /\ waited = FALSE
    /\ protocol_handshakes = 0

\* the session once handshake_complete has run
Connected ==
    /\ packet_parser = "_parse_security_handshake"
    /\ buffer = << >>
    /\ sent = << >>
    /\ aborts = << >>
    /\ session_names = << >>
    /\ last = NoCall
    /\ waited = FALSE
    /\ protocol_handshakes = 1

Init ==
    /\ Constructed
    /\ wire = << >>
    /\ NoVfb

\* handshake_complete: whatever the parser was, the security handshake parser
\* is installed and send_protocol_handshake of the base class is called
handshake_complete ==
    /\ packet_parser' = "_parse_security_handshake"
    /\ protocol_handshakes' = protocol_handshakes + 1
    /\ UNCHANGED <<buffer, wire, sent, aborts, session_names, last, waited>>
    /\ UNCHANGED vfb_vars

\* the caller of handshake_complete: the base class's parser of the protocol
\* version exchange, which runs while it is the parser installed and which
\* handshake_complete replaces
_parse_protocol_handshake ==
    /\ packet_parser = "_parse_protocol_handshake"
    /\ handshake_complete

\* the server writes one more message, and the first t bytes of the next; the
\* messages modelled follow the protocol version exchange
ServerWrite(m, t) ==
    /\ packet_parser # "_parse_protocol_handshake"
    /\ wire = << >>
    /\ Len(buffer) <= MaxExtra
    /\ wire' = m \o Zeros(t)
    /\ UNCHANGED <<packet_parser, buffer, sent, aborts, session_names, last, waited,
                   protocol_handshakes>>
    /\ UNCHANGED vfb_vars

\* the transport delivers the next k bytes in flight to the receive buffer
Deliver(k) ==
    /\ k \in 1..Len(wire)
    /\ buffer' = buffer \o Take(wire, k)
    /\ wire' = Drop(wire, k)
    /\ last' = NoCall
    /\ UNCHANGED <<packet_parser, sent, aborts, session_names, waited,
                   protocol_handshakes>>
    /\ UNCHANGED vfb_vars

\* bytes the caller removes from the buffer after a call
Consumed(ret) == IF ret.kind = "int" THEN ret.val ELSE 0

\* new bytes were buffered: the current parser is called with the whole receive
\* buffer, and the caller drops what it consumed
Feed ==
    /\ buffer # << >>
    /\ Len(aborts) < MaxAborts
    /\ LET out == Dispatch(packet_parser, buffer) IN
       /\ packet_parser' = out.parser
       /\ sent' = sent \o out.send
       /\ aborts' = aborts \o out.abort
       /\ session_names' = session_names \o out.names
       /\ buffer' = Drop(buffer, Consumed(out.ret))
       /\ last' = [parser |-> packet_parser, packet |-> buffer, waited |-> waited,
                   out |-> out]
       \* whether, since bytes were last consumed, the parser was called on newly
       \* delivered bytes and left them in place
       /\ waited' = IF out.parser # packet_parser \/ Consumed(out.ret) > 0 THEN FALSE
                    ELSE waited \/ last = NoCall
    /\ UNCHANGED <<wire, protocol_handshakes>>
    /\ UNCHANGED vfb_vars

Next ==
    \/ _parse_protocol_handshake
    \/ \E m \in Messages, t \in 0..MaxExtra : ServerWrite(m, t)
    \/ \E k \in 1..Len(wire) : Deliver(k)
    \/ Feed

Spec == Init /\ [][Next]_vars

(* ----------------------------------------------- the session kept alive *)

\* the byte streams of a server that follows the protocol: a security list with
\* no-auth first, the zero status, a complete server-init, a raw rectangle
ValidStreams ==
    {l \o <<0, 0, 0, 0>> \o c \o Rect(<<0, 0, 0, 1>>, w, h, RFBEncoding_RAW)
       : l \in {x \in SecurityLists : Len(x) > 1 /\ x[2] = RFBAuth_NONE},
         c \in ClientInits, w \in 1..MaxDim, h \in 1..MaxDim}

\* the whole stream is in flight when the session starts
LiveInit ==
    /\ Connected
    /\ wire \in ValidStreams
    /\ NoVfb

\* the transport delivers the stream in chunks cut at any byte boundary
LiveNext ==
    \/ \E k \in 1..Len(wire) : Deliver(k)
    \/ Feed

\* a chunk in flight is eventually delivered, and the parser is called again
\* whenever a call changes anything
LiveSpec ==
    /\ LiveInit
    /\ [][LiveNext]_vars
    /\ WF_vars(\E k \in 1..Len(wire) : Deliver(k))
    /\ WF_vars(Feed)

(* --------------------------------------------------- starting the vfb *)

XvfbInit ==
    /\ Constructed
    /\ wire = << >>
    /\ v_pc = "try"
    /\ v_args \in {a \in VfbCalls : a.tmp_xorg_log_file => a.display_name[1] = "S"}
    /\ display_name = v_args.display_name
    /\ FreshCall

\* the exceptions raised here that "except Exception" catches
Exceptions ==
    {"OSError", "InitException", "SubprocessError", "ValueError", "AssertionError"}

\* use_display_fd = display_name[0]=='S'
use_display_fd == v_args.display_name[1] = "S"

\* xvfb = None; try: if use_display_fd:
X_try ==
    /\ v_pc = "try"
    /\ xvfb' = "None"
    /\ v_pc' = IF use_display_fd THEN "pipe" ELSE "Popen_display"
    /\ UNCHANGED <<v_args, r_pipe, w_pipe, buf, display_name, exc, proc, logfile,
                   v_result>>
    /\ UNCHANGED rfb_vars

\* r_pipe, w_pipe = os.pipe(): no pipe is made when it raises OSError; a
\* KeyboardInterrupt raised when os.pipe() has returned and before the two
\* names are bound leaves the descriptors open in the process with no local
\* naming them ("open_unbound"): line 246 is outside the try statement of
\* lines 247-270
X_pipe ==
    /\ v_pc = "pipe"
    /\ \E outcome \in {"", "OSError", "KeyboardInterrupt"} :
         /\ r_pipe' = CASE outcome = "" -> "open"
                        [] outcome = "OSError" -> r_pipe
                        [] OTHER -> "open_unbound"
         /\ w_pipe' = CASE outcome = "" -> "open"
                        [] outcome = "OSError" -> w_pipe
                        [] OTHER -> "open_unbound"
         /\ exc' = outcome
         /\ v_pc' = CASE outcome = "" -> "set_inheritable"
                      [] outcome = "OSError" -> "except"
                      [] OTHER -> "raised"
    /\ UNCHANGED <<v_args, xvfb, buf, display_name, proc, logfile, v_result>>
    /\ UNCHANGED rfb_vars

\* os.set_inheritable(w_pipe, True), and the command line is completed
X_set_inheritable ==
    /\ v_pc = "set_inheritable"
    /\ \E ok \in BOOLEAN :
         /\ exc' = IF ok THEN "" ELSE "OSError"
         /\ v_pc' = IF ok THEN "Popen" ELSE "finally"
    /\ UNCHANGED <<v_args, r_pipe, w_pipe, xvfb, buf, display_name, proc, logfile,
                   v_result>>
    /\ UNCHANGED rfb_vars

\* xvfb = Popen(...): the vfb runs; OSError becomes InitException, any other
\* exception (SubprocessError of preexec_fn, ValueError of the arguments) is
\* raised as it is, and xvfb stays None.  Popen forks the child and then waits
\* for its exec: a KeyboardInterrupt raised in that wait leaves the child
\* running with xvfb still None
X_Popen ==
    /\ v_pc = "Popen"
    /\ \E outcome \in {"", "InitException", "SubprocessError", "ValueError",
                       "KeyboardInterrupt"} :
         /\ xvfb' = IF outcome = "" THEN "Popen" ELSE xvfb
         /\ proc' = IF outcome \in {"", "KeyboardInterrupt"} THEN "running" ELSE proc
         /\ exc' = outcome
         /\ v_pc' = IF outcome = "" THEN "assert" ELSE "finally"
    /\ UNCHANGED <<v_args, r_pipe, w_pipe, buf, display_name, logfile, v_result>>
    /\ UNCHANGED rfb_vars

\* assert xvfb.poll() is None, "xvfb command failed"
X_assert ==
    /\ v_pc = "assert"
    /\ exc' = IF proc = "running" THEN "" ELSE "AssertionError"
    /\ v_pc' = IF proc = "running" THEN "read_displayfd" ELSE "finally"
    /\ UNCHANGED <<v_args, r_pipe, w_pipe, xvfb, buf, display_name, proc, logfile,
                   v_result>>
    /\ UNCHANGED rfb_vars

\* buf = read_displayfd(r_pipe); an exception of class Exception goes to
\* displayfd_err, which raises InitException; a KeyboardInterrupt that arrives
\* while the call waits for the vfb is not of that class and is not caught
X_read_displayfd ==
    /\ v_pc = "read_displayfd"
    /\ \/ \E b \in PipeOutputs : buf' = b /\ exc' = ""
       \/ buf' = buf /\ exc' = "InitException"
       \/ buf' = buf /\ exc' = "KeyboardInterrupt"
    /\ v_pc' = "finally"
    /\ UNCHANGED <<v_args, r_pipe, w_pipe, xvfb, display_name, proc, logfile,
                   v_result>>
    /\ UNCHANGED rfb_vars

\* finally: osclose(r_pipe)
X_osclose_r_pipe ==
    /\ v_pc = "finally"
    /\ r_pipe' = "closed"
    /\ v_pc' = "osclose_w_pipe"
    /\ UNCHANGED <<v_args, w_pipe, xvfb, buf, display_name, exc, proc, logfile,
                   v_result>>
    /\ UNCHANGED rfb_vars

\* osclose(w_pipe), then the try statement is left, or the exception goes on:
\* to the handler of "except Exception" when it is of that class, and out of
\* start_Xvfb when it is not
X_osclose_w_pipe ==
    /\ v_pc = "osclose_w_pipe"
    /\ w_pipe' = "closed"
    /\ v_pc' = IF exc = "" THEN "parse_displayfd"
               ELSE IF exc \in Exceptions THEN "except" ELSE "raised"
    /\ UNCHANGED <<v_args, r_pipe, xvfb, buf, display_name, exc, proc, logfile,
                   v_result>>
    /\ UNCHANGED rfb_vars

\* n = parse_displayfd(buf, displayfd_err); new_display_name = ":%s" % n
X_parse_displayfd ==
    /\ v_pc = "parse_displayfd"
    /\ LET r == parse_displayfd(buf) IN
       /\ exc' = IF r.err THEN "InitException" ELSE ""
       /\ v_pc' = IF r.err THEN "except" ELSE "rename"
    /\ UNCHANGED <<v_args, r_pipe, w_pipe, xvfb, buf, display_name, proc, logfile,
                   v_result>>
    /\ UNCHANGED rfb_vars

\* if tmp_xorg_log_file: the Xorg log file is renamed for the new display with
\* os.rename(f0, f1), which needs the file to be there; a failure to rename is
\* only a warning
X_rename ==
    /\ v_pc = "rename"
    /\ \/ logfile' = logfile
       \/ v_args.tmp_xorg_log_file /\ logfile = "f0" /\ logfile' = "f1"
    /\ v_pc' = "display_name"
    /\ UNCHANGED <<v_args, r_pipe, w_pipe, xvfb, buf, display_name, exc, proc,
                   v_result>>
    /\ UNCHANGED rfb_vars

\* display_name = new_display_name
X_display_name ==
    /\ v_pc = "display_name"
    /\ display_name' = <<":">> \o str(parse_displayfd(buf).n)
    /\ v_pc' = "return"
    /\ UNCHANGED <<v_args, r_pipe, w_pipe, xvfb, buf, exc, proc, logfile, v_result>>
    /\ UNCHANGED rfb_vars

\* else: xvfb = Popen(xvfb_cmd, ..., stdin=PIPE, ...) on the display given; its
\* exceptions (OSError, SubprocessError of preexec_fn, ValueError of the
\* arguments) are raised as they are; a KeyboardInterrupt raised while Popen
\* waits for the exec of the child it forked leaves the child running with
\* xvfb still None, and is not caught
X_Popen_display ==
    /\ v_pc = "Popen_display"
    /\ \E outcome \in {"", "OSError", "SubprocessError", "ValueError",
                       "KeyboardInterrupt"} :
         /\ xvfb' = IF outcome = "" THEN "Popen" ELSE xvfb
         /\ proc' = IF outcome \in {"", "KeyboardInterrupt"} THEN "running" ELSE proc
         /\ exc' = outcome
         /\ v_pc' = CASE outcome = "" -> "return"
                      [] outcome = "KeyboardInterrupt" -> "raised"
                      [] OTHER -> "except"
    /\ UNCHANGED <<v_args, r_pipe, w_pipe, buf, display_name, logfile, v_result>>
    /\ UNCHANGED rfb_vars

\* the statements inside the try statement of lines 247-267, whose finally
\* clause runs when an exception leaves them
InnerTry == {"set_inheritable", "Popen", "assert"}

\* the other places between two statements of lines 241-307
BetweenStatements ==
    {"try", "pipe", "finally", "osclose_w_pipe", "parse_displayfd", "rename",
     "display_name", "Popen_display", "except", "raise", "return"}

\* a KeyboardInterrupt raised before the next statement runs: it replaces an
\* exception in flight, the finally clause of lines 268-270 runs when it is
\* raised inside the inner try statement, and it leaves start_Xvfb otherwise,
\* no handler being of its class (lines 265, 283, 300 are "except Exception")
X_KeyboardInterrupt ==
    /\ v_pc \in InnerTry \cup BetweenStatements
    /\ exc' = "KeyboardInterrupt"
    /\ v_pc' = IF v_pc \in InnerTry THEN "finally" ELSE "raised"
    /\ UNCHANGED <<v_args, r_pipe, w_pipe, xvfb, buf, display_name, proc, logfile,
                   v_result>>
    /\ UNCHANGED rfb_vars

\* variant: the exception is raised again and the vfb is left alone
X_except_leaves_vfb ==
    /\ v_pc = "except"
    /\ proc' = proc
    /\ v_pc' = "raise"
    /\ UNCHANGED <<v_args, r_pipe, w_pipe, xvfb, buf, display_name, exc, logfile,
                   v_result>>
    /\ UNCHANGED rfb_vars

\* except Exception: if xvfb and xvfb.poll() is None: xvfb.terminate()
X_except ==
    /\ v_pc = "except"
    /\ proc' = IF xvfb = "Popen" /\ proc = "running" THEN "terminated" ELSE proc
    /\ v_pc' = "raise"
    /\ UNCHANGED <<v_args, r_pipe, w_pipe, xvfb, buf, display_name, exc, logfile,
                   v_result>>
    /\ UNCHANGED rfb_vars

\* raise: the exception caught goes on to the caller
X_raise ==
    /\ v_pc = "raise"
    /\ v_pc' = "raised"
    /\ UNCHANGED <<v_args, r_pipe, w_pipe, xvfb, buf, display_name, exc, proc,
                   logfile, v_result>>
    /\ UNCHANGED rfb_vars

\* return xvfb, display_name
X_return ==
    /\ v_pc = "return"
    /\ v_result' = [xvfb |-> xvfb, display_name |-> display_name]
    /\ v_pc' = "returned"
    /\ UNCHANGED <<v_args, r_pipe, w_pipe, xvfb, buf, display_name, exc, proc,
                   logfile>>
    /\ UNCHANGED rfb_vars

\* kill_xvfb(xvfb_pid), with the pid of the process start_Xvfb returned:
\* os.kill(xvfb_pid, signal.SIGTERM), an OSError being logged only
kill_xvfb ==
    /\ v_pc = "returned"
    /\ v_result.xvfb = "Popen"
    /\ proc' = IF proc = "running" THEN "terminated" ELSE proc
    /\ UNCHANGED <<v_pc, v_args, r_pipe, w_pipe, xvfb, buf, display_name, exc, logfile,
                   v_result>>
    /\ UNCHANGED rfb_vars

\* the vfb process exits by itself
VfbExits ==
    /\ proc = "running"
    /\ proc' = "exited"
    /\ UNCHANGED <<v_pc, v_args, r_pipe, w_pipe, xvfb, buf, display_name, exc, logfile,
                   v_result>>
    /\ UNCHANGED rfb_vars

\* the vfb process, started with -logfile, creates its log file at the name it
\* was given
VfbWritesLog ==
    /\ proc = "running"
    /\ v_args.tmp_xorg_log_file
    /\ logfile = "none"
    /\ logfile' = "f0"
    /\ UNCHANGED <<v_pc, v_args, r_pipe, w_pipe, xvfb, buf, display_name, exc, proc,
                   v_result>>
    /\ UNCHANGED rfb_vars

XvfbNext ==
    \/ X_try
    \/ X_pipe
    \/ X_set_inheritable
    \/ X_Popen
    \/ X_assert
    \/ X_read_displayfd
    \/ X_osclose_r_pipe
    \/ X_osclose_w_pipe
    \/ X_parse_displayfd
    \/ X_rename
    \/ X_display_name
    \/ X_Popen_display
    \/ X_KeyboardInterrupt
    \/ X_except
    \/ X_raise
    \/ X_return
    \/ kill_xvfb
    \/ VfbExits
    \/ VfbWritesLog

XvfbSpec == XvfbInit /\ [][XvfbNext]_vars

(* ------------------------------------------------------------ the claims *)

\* the call just made was made to parser p
Called(p) == last.parser = p

\* the call just made sent nothing, signalled nothing, decoded nothing and left
\* the parser in place
NoEffect ==
    /\ last.out.send = << >>
    /\ last.out.abort = << >>
    /\ last.out.names = << >>
    /\ last.out.parser = last.parser

\* the bytes the call saw followed by the bytes still in flight
Stream == last.packet \o wire

\* C1: in AwaitingSecurityHandshake, a call with a count byte n >= 1 and fewer
\* than 1+n bytes returns 0 and has no effect.
C1_ShortListWaits ==
    (/\ Called("_parse_security_handshake")
     /\ last.packet[1] >= 1
     /\ Len(last.packet) < 1 + last.packet[1])
    => (last.out.ret = Ret(0) /\ NoEffect)

\* C2: in AwaitingSecurityHandshake, a complete list of n >= 1 types whose first
\* type is not no-auth makes exactly one abort call, no send, returns 0 and leaves
\* the parser in place, also when no-auth comes later in the list.
C2_UnsupportedFirstTypeAborts ==
    (/\ Called("_parse_security_handshake")
     /\ last.packet[1] >= 1
     /\ Len(last.packet) = 1 + last.packet[1]
     /\ last.packet[2] # RFBAuth_NONE)
    => (/\ Len(last.out.abort) = 1
        /\ last.out.send = << >>
        /\ last.out.ret = Ret(0)
        /\ last.out.parser = "_parse_security_handshake")

\* a list <<2, VNC, no-auth>> was refused
C2_Witness ==
    /\ Called("_parse_security_handshake")
    /\ Len(last.packet) = 3
    /\ last.packet[1] = 2
    /\ last.packet[2] # RFBAuth_NONE
    /\ last.packet[3] = RFBAuth_NONE
    /\ Len(last.out.abort) = 1

\* C3: in AwaitingSecurityHandshake, a buffer whose first byte is 0 makes one
\* abort call, returns 0, sends nothing and leaves the parser in place, whatever
\* follows the count byte.
C3_EmptyListAborts ==
    (Called("_parse_security_handshake") /\ last.packet[1] = 0)
    => (/\ Len(last.out.abort) = 1
        /\ last.out.send = << >>
        /\ last.out.ret = Ret(0)
        /\ last.out.parser = "_parse_security_handshake")

\* a zero count byte followed by further bytes, one of them not zero, was refused
C3_Witness ==
    /\ Called("_parse_security_handshake")
    /\ last.packet[1] = 0
    /\ Len(last.packet) > 2
    /\ \E i \in 2..Len(last.packet) : last.packet[i] # 0
    /\ Len(last.out.abort) = 1

\* C4: in AwaitingSecurityResult, at least 4 bytes of which the first 4 are zero
\* make the call send the one message <<0>>, install the client-init parser and
\* return 4, however many bytes follow.
C4_ZeroStatusAdvances ==
    (/\ Called("_parse_security_result")
     /\ Len(last.packet) >= 4
     /\ \A i \in 1..4 : last.packet[i] = 0)
    => (/\ last.out.send = <<(<<0>>)>>
        /\ last.out.parser = "_parse_client_init"
        /\ last.out.ret = Ret(4)
        /\ last.out.abort = << >>)

\* a zero status with further bytes behind it was accepted
C4_Witness ==
    /\ Called("_parse_security_result")
    /\ Len(last.packet) > 4
    /\ \A i \in 1..4 : last.packet[i] = 0
    /\ last.out.ret = Ret(4)
    /\ packet_parser = "_parse_client_init"

\* C5: in AwaitingSecurityResult, at least 4 bytes whose first 4 are not all zero
\* make exactly one abort call, no send, return 0 and leave the parser in place.
C5_NonZeroStatusAborts ==
    (/\ Called("_parse_security_result")
     /\ Len(last.packet) >= 4
     /\ \E i \in 1..4 : last.packet[i] # 0)
    => (/\ Len(last.out.abort) = 1
        /\ last.out.send = << >>
        /\ last.out.ret = Ret(0)
        /\ last.out.parser = "_parse_security_result")

\* a status whose last two bytes are zero was refused
C5_Witness ==
    /\ Called("_parse_security_result")
    /\ Len(last.packet) >= 4
    /\ last.packet[1] # 0
    /\ last.packet[3] = 0
    /\ last.packet[4] = 0
    /\ Len(last.out.abort) = 1
    /\ packet_parser = "_parse_security_result"

\* C6: in AwaitingClientInit, however the header_size + name_length bytes of a
\* server-init are split into deliveries, every call that sees fewer bytes returns
\* 0 without effect, and the call that first sees them all returns
\* header_size + name_length, sends the one set-encodings message, decodes the
\* name and installs the update parser: what single-shot delivery gives.
C6_ClientInitChunking ==
    (Called("_parse_client_init") /\ Len(Stream) >= ci_size)
    => LET hi == unpack_H(Stream, ci_size - 4)
           name_length == unpack_H(Stream, ci_size - 2)
       IN  IF hi # 0 \/ Len(last.packet) < ci_size + name_length
           THEN last.out.ret = Ret(0) /\ NoEffect
           ELSE /\ last.out.ret = Ret(ci_size + name_length)
                /\ last.out.send = <<(<<2, 0, 0, 1, 0, 0, 0, 0>>)>>
                /\ last.out.abort = << >>
                /\ last.out.parser = "_parse_rfb_packet"
                /\ Len(last.out.names) = 1
                /\ Len(last.out.names[1]) = name_length
                /\ \A i \in 1..name_length :
                       last.out.names[1][i].chr = Stream[ci_size + i]

\* a server-init with a name was completed by a call that followed a call on a
\* shorter buffer
C6_Witness ==
    /\ Called("_parse_client_init")
    /\ last.waited
    /\ last.out.parser = "_parse_rfb_packet"
    /\ Len(last.out.names[1]) >= 2
    /\ session_names = last.out.names

\* C7: in SteadyStateUpdates, for a one-rectangle raw header with w >= 1 and
\* h >= 1, a call returns 0 on every buffer shorter than header_size + w*h*4 and
\* header_size + w*h*4 on every buffer at least that long.
C7_RawRectangleLength ==
    (/\ Called("_parse_rfb_packet")
     /\ Len(Stream) >= header_size
     /\ SubSeq(Stream, 1, 4) = <<0, 0, 0, 1>>
     /\ SubSeq(Stream, 13, 16) = <<0, 0, 0, 0>>
     /\ unpack_H(Stream, 8) >= 1
     /\ unpack_H(Stream, 10) >= 1)
    => LET w == unpack_H(Stream, 8)
           h == unpack_H(Stream, 10)
       IN  \* w*h of 65536 or more: every buffer (below 65536 bytes) is shorter
           IF h > 65535 \div w \/ Len(last.packet) < header_size + w * h * 4
           THEN last.out.ret = Ret(0)
           ELSE last.out.ret = Ret(header_size + w * h * 4)

\* a 2x2 raw rectangle was consumed: header_size + 16 bytes
C7_Witness ==
    /\ Called("_parse_rfb_packet")
    /\ Len(last.packet) >= header_size + 16
    /\ unpack_H(last.packet, 8) = 2
    /\ unpack_H(last.packet, 10) = 2
    /\ last.out.ret = Ret(header_size + 16)

\* C8: in SteadyStateUpdates, a rectangle header with the expected markers and
\* an encoding other than raw is rejected through the abort collaborator and the
\* call returns no positive count, however many payload bytes follow.
C8_NonRawRejected ==
    (/\ Called("_parse_rfb_packet")
     /\ Len(last.packet) >= header_size
     /\ SubSeq(last.packet, 1, 4) = <<0, 0, 0, 1>>
     /\ SubSeq(last.packet, 13, 16) # <<0, 0, 0, 0>>)
    => (/\ Len(last.out.abort) = 1
        /\ ~(last.out.ret.kind = "int" /\ last.out.ret.val > 0))

\* the place of a parser in the order of the session; 0 before the session
Rank(p) ==
    IF \E i \in 1..Len(ParseStates) : ParseStates[i] = p
    THEN CHOOSE i \in 1..Len(ParseStates) : ParseStates[i] = p
    ELSE 0

\* C9: the parser only moves forward along security handshake, security result,
\* client init, updates, one step at a time; no call skips a parser, goes back,
\* or leaves the update parser.
C9_ForwardOneStep ==
    [][\/ packet_parser' = packet_parser
       \/ Rank(packet_parser') = Rank(packet_parser) + 1]_vars

\* the session reached the update parser, which was called and stayed
C9_Witness ==
    /\ Called("_parse_rfb_packet")
    /\ packet_parser = "_parse_rfb_packet"
    /\ Len(sent) = 3

\* C10: every call returns an integer count c with 0 <= c <= len(buffer).
C10_ReturnsCountWithinBuffer ==
    (last # NoCall)
    => (/\ last.out.ret.kind = "int"
        /\ last.out.ret.val >= 0
        /\ last.out.ret.val <= Len(last.packet))

\* C11: a complete message followed by extra bytes is consumed as its prefix
\* alone; in AwaitingSecurityHandshake more than 1+n bytes whose first type is
\* no-auth give the return value 1+n, the one selector byte sent and the
\* security-result parser installed.
C11_ListPrefixConsumed ==
    (/\ Called("_parse_security_handshake")
     /\ last.packet[1] >= 1
     /\ Len(last.packet) > 1 + last.packet[1]
     /\ last.packet[2] = RFBAuth_NONE)
    => (/\ last.out.ret = Ret(1 + last.packet[1])
        /\ last.out.send = <<(<<0>>)>>
        /\ last.out.abort = << >>
        /\ last.out.parser = "_parse_security_result")

\* C12: a raw rectangle whose payload length w*h*4 exceeds a maximum below
\* 65535*65535*4 is rejected through the abort collaborator once its header is
\* examined, instead of being waited for; stated for the largest rectangle,
\* which exceeds every such maximum.
C12_HugeRectangleRejected ==
    (/\ Called("_parse_rfb_packet")
     /\ Len(last.packet) > header_size
     /\ SubSeq(last.packet, 1, 4) = <<0, 0, 0, 1>>
     /\ SubSeq(last.packet, 9, 16) = <<255, 255, 255, 255, 0, 0, 0, 0>>)
    => Len(last.out.abort) = 1

\* the abort calls made before the call just made
AbortsBefore == Len(aborts) - Len(last.out.abort)

\* C13: after a call that invoked the abort collaborator, no later call sends a
\* message, changes the parser or returns a positive count, and the violation is
\* not signalled again.
C13_AbortIsFinal ==
    (last # NoCall /\ AbortsBefore >= 1)
    => (/\ last.out.send = << >>
        /\ last.out.parser = last.parser
        /\ ~(last.out.ret.kind = "int" /\ last.out.ret.val > 0)
        /\ last.out.abort = << >>)

\* the three messages of the handshake, in order: the security selector, the
\* share flag, set-encodings (type 2, padding, count 1, encoding 0)
HandshakeReplies == <<(<<0>>), (<<0>>), (<<2, 0, 0, 1, 0, 0, 0, 0>>)>>

\* C14: the parsers send exactly the selector byte 0, the share flag 0 and the
\* 8-byte set-encodings message, each once and in this order, one per parser
\* passed; nothing else is sent, so a session in SteadyStateUpdates has sent
\* exactly these three.
C14_ThreeRepliesInOrder ==
    sent = SubSeq(HandshakeReplies, 1, Rank(packet_parser) - 1)

\* a session in SteadyStateUpdates consumed an update after the three replies
C14_Witness ==
    /\ packet_parser = "_parse_rfb_packet"
    /\ Called("_parse_rfb_packet")
    /\ last.out.ret.val > 0
    /\ sent = HandshakeReplies

\* C18: in SteadyStateUpdates a buffer of exactly header_size bytes is examined:
\* a raw header with width*height = 0 is consumed (header_size returned) and a
\* header with mismatched markers is aborted.
C18_HeaderAloneExamined ==
    (Called("_parse_rfb_packet") /\ Len(last.packet) = header_size)
    => IF SubSeq(last.packet, 1, 4) # <<0, 0, 0, 1>>
       THEN Len(last.out.abort) = 1
       ELSE (/\ SubSeq(last.packet, 13, 16) = <<0, 0, 0, 0>>
             /\ (unpack_H(last.packet, 8) = 0 \/ unpack_H(last.packet, 10) = 0))
            => last.out.ret = Ret(header_size)

\* C19: in AwaitingSecurityHandshake a complete list whose first type is no-auth
\* is accepted (selector sent, security-result parser installed, 1+n returned)
\* whatever the other n-1 codes are, unknown ones included.
C19_NoAuthFirstAccepted ==
    (/\ Called("_parse_security_handshake")
     /\ last.packet[1] >= 1
     /\ Len(last.packet) = 1 + last.packet[1]
     /\ last.packet[2] = RFBAuth_NONE)
    => (/\ last.out.ret = Ret(1 + last.packet[1])
        /\ last.out.send = <<(<<0>>)>>
        /\ last.out.abort = << >>
        /\ last.out.parser = "_parse_security_result")

\* the list <<2, no-auth, 77>> was accepted
C19_Witness ==
    /\ Called("_parse_security_handshake")
    /\ last.packet = <<2, RFBAuth_NONE, 77>>
    /\ packet_parser = "_parse_security_result"
    /\ buffer = << >>

\* the bytes a complete message of the stream takes for the parser called, 0 when
\* the stream holds no well-formed message for it (yet)
Needed ==
    CASE Called("_parse_security_result") ->
           IF Len(Stream) >= 4 /\ SubSeq(Stream, 1, 4) = <<0, 0, 0, 0>> THEN 4 ELSE 0
      [] Called("_parse_client_init") ->
           IF Len(Stream) >= ci_size /\ unpack_H(Stream, ci_size - 4) = 0
           THEN ci_size + unpack_H(Stream, ci_size - 2) ELSE 0
      [] Called("_parse_rfb_packet") ->
           IF /\ Len(Stream) >= header_size
              /\ SubSeq(Stream, 1, 4) = <<0, 0, 0, 1>>
              /\ SubSeq(Stream, 13, 16) = <<0, 0, 0, 0>>
              /\ unpack_H(Stream, 8) \in 1..255
              /\ unpack_H(Stream, 10) \in 1..255
           THEN header_size + unpack_H(Stream, 8) * unpack_H(Stream, 10) * 4 ELSE 0
      [] OTHER -> 0

\* C20: in AwaitingSecurityResult, AwaitingClientInit and SteadyStateUpdates a
\* call on a buffer too short for the message being delivered returns 0 and sends
\* nothing, aborts nothing and leaves the parser in place; the call that sees the
\* missing bytes appended completes the message.
C20_ShortBufferWaits ==
    (Needed > 0)
    => IF Len(last.packet) < Needed
       THEN last.out.ret = Ret(0) /\ NoEffect
       ELSE last.out.ret = Ret(Needed) /\ last.out.abort = << >>

\* an update was completed by a call that followed a call on a shorter buffer
C20_Witness ==
    /\ Called("_parse_rfb_packet")
    /\ last.waited
    /\ Needed > header_size
    /\ last.out.ret = Ret(Needed)

\* C17: when a valid server stream is delivered in chunks cut at any byte
\* boundaries and the parser is called on the unconsumed buffer after each chunk,
\* every call returns a byte count without failing, and the session eventually
\* reaches the update parser with the three handshake replies sent.
C17_LiveUnderChunking ==
    /\ [](last # NoCall => (last.out.ret.kind = "int" /\ last.out.abort = << >>))
    /\ <>(packet_parser = "_parse_rfb_packet" /\ sent = HandshakeReplies)

\* C21: the number of messages sent equals the number of parser transitions made
\* since the security handshake parser was installed (0 to 3); a call sends a
\* message if and only if it installs the next parser and returns a positive
\* count; a call of the update parser never sends.
C21_SendsMatchTransitions ==
    /\ Rank(packet_parser) >= 1 => Len(sent) = Rank(packet_parser) - 1
    /\ Rank(packet_parser) = 0 => sent = << >>
    /\ last # NoCall =>
         /\ (last.out.send # << >>)
              <=> (/\ last.out.parser # last.parser
                   /\ last.out.ret.kind = "int"
                   /\ last.out.ret.val > 0)
         /\ Len(last.out.send) <= 1
         /\ Called("_parse_rfb_packet") => last.out.send = << >>

\* the client-init call sent the third message as it installed the update parser
C21_Witness ==
    /\ Called("_parse_client_init")
    /\ Len(last.out.send) = 1
    /\ last.out.ret.val > 0
    /\ packet_parser = "_parse_rfb_packet"
    /\ Len(sent) = 3

\* C22: the parser leaves the security handshake only in a call that consumes a
\* security list whose first entry is no-auth, and passes the security result
\* only from there, in a call that consumes a zero 4-byte status; set-encodings
\* is sent only by the call that follows both, so it is never among the messages
\* sent before the update parser is installed.
C22_AuthGating ==
    /\ [][/\ (Rank(packet_parser) = 1 /\ packet_parser' # packet_parser)
             => (/\ Len(buffer) >= 2
                 /\ buffer[1] >= 1
                 /\ buffer[2] = RFBAuth_NONE
                 /\ Len(buffer) >= 1 + buffer[1]
                 /\ buffer' = Drop(buffer, 1 + buffer[1]))
          /\ (Rank(packet_parser) < 3 /\ Rank(packet_parser') >= 3)
             => (/\ packet_parser = "_parse_security_result"
                 /\ Take(buffer, 4) = Zeros(4)
                 /\ buffer' = Drop(buffer, 4))
          /\ (\E i \in 1..Len(sent') : sent'[i] = HandshakeReplies[3])
             => Rank(packet_parser) >= 3]_vars
    /\ []((\E i \in 1..Len(sent) : sent[i] = HandshakeReplies[3])
            => packet_parser = "_parse_rfb_packet")

\* a zero status was consumed and the client-init parser installed, with the
\* two first replies sent and set-encodings not yet
C22_Witness ==
    /\ Called("_parse_security_result")
    /\ Take(last.packet, 4) = Zeros(4)
    /\ packet_parser = "_parse_client_init"
    /\ sent = SubSeq(HandshakeReplies, 1, 2)
    /\ buffer = Drop(last.packet, 4)

\* the places of start_Xvfb after the finally clause of lines 268-270
AfterFinally ==
    {"parse_displayfd", "rename", "display_name", "except", "raise", "return",
     "returned"}

\* C23, as the claim states it: both descriptors are closed on every path after
\* the pipe is created, and whenever start_Xvfb raises after the vfb was
\* spawned the vfb is no longer running; nothing is returned on a raise.
C23_Original ==
    /\ (r_pipe # "unset" /\ v_pc \in AfterFinally \cup {"raised"})
       => (r_pipe = "closed" /\ w_pipe = "closed")
    /\ v_pc = "raised"
       => (/\ proc \in {"none", "terminated", "exited"}
           /\ exc # ""
           /\ v_result = NoResult)
    /\ v_pc = "returned"
       => (/\ exc = ""
           /\ v_result = [xvfb |-> "Popen", display_name |-> display_name])

\* C23: in display-fd mode, once the pipe exists both of its descriptors are
\* closed wherever start_Xvfb goes on after the finally clause, and when it
\* raises an exception of class Exception; when it raises such an exception no
\* vfb is left running (the one spawned was terminated if it still ran); the
\* only other exception raised is KeyboardInterrupt, for which none of this is
\* promised; nothing is returned when an exception is raised, and a process
\* and display name are returned only when none was.
C23_CleanupOnFailure ==
    /\ (r_pipe # "unset" /\ v_pc \in AfterFinally)
       => (r_pipe = "closed" /\ w_pipe = "closed")
    /\ v_pc = "raised"
       => (/\ exc \in Exceptions \cup {"KeyboardInterrupt"}
           /\ exc \in Exceptions
                => (/\ r_pipe # "unset" => (r_pipe = "closed" /\ w_pipe = "closed")
                    /\ proc \in {"none", "terminated", "exited"}
                    /\ xvfb = "None" => proc = "none")
           /\ v_result = NoResult)
    /\ v_pc = "returned"
       => (/\ exc = ""
           /\ v_result = [xvfb |-> "Popen", display_name |-> display_name])

\* the display number read from the pipe could not be parsed while the vfb was
\* running: the vfb was terminated, both descriptors are closed, InitException
C23_Witness ==
    /\ v_pc = "raised"
    /\ exc = "InitException"
    /\ buf # << >>
    /\ parse_displayfd(buf).err
    /\ xvfb = "Popen"
    /\ proc = "terminated"
    /\ r_pipe = "closed"
    /\ w_pipe = "closed"

====
